---- MODULE Spec2Model ----
(***************************************************************************)
(* Model of src/modules/llms/openai/openai.router.ts: the three tRPC       *)
(* procedures of openAIRouter (chatGenerateWithFunctions, moderation,      *)
(* listModels) and the helpers they call (openaiGET, openaiPOST,           *)
(* openAIAccess, openAIChatCompletionPayload, parseChatGenerateFCOutput,   *)
(* parseChatGenerateOutput).                                               *)
(*                                                                         *)
(* JavaScript strings that the code inspects character by character        *)
(* (keys, hosts, paths, model ids) are sequences of one-character strings; *)
(* strings the code only passes along or compares whole are TLA+ strings.  *)
(***************************************************************************)
EXTENDS Naturals, Integers, Sequences, FiniteSets, TLC

\* JavaScript's null and undefined, for string-valued fields
NULL == "<null>"
UNDEF == "<undefined>"

\* ------------------------------------------------------------------ bounds

\* longest choices array a provider response carries
MaxChoices == 2
\* longest functions array a caller passes
MaxFunctions == 2

\* ------------------------------------------------------------ JS strings

\* String.prototype.startsWith
StartsWith(s, p) == Len(s) >= Len(p) /\ SubSeq(s, 1, Len(p)) = p

\* String.prototype.endsWith
EndsWith(s, p) == Len(s) >= Len(p) /\ SubSeq(s, Len(s) - Len(p) + 1, Len(s)) = p

\* String.prototype.includes
Includes(s, p) == \E i \in 1..(Len(s) - Len(p) + 1) : SubSeq(s, i, i + Len(p) - 1) = p

\* String.prototype.trim (zod's z.string().trim()); the only whitespace is " "
RECURSIVE TrimStart(_)
TrimStart(s) == IF s # <<>> /\ Head(s) = " " THEN TrimStart(Tail(s)) ELSE s

RECURSIVE TrimEnd(_)
TrimEnd(s) == IF s # <<>> /\ s[Len(s)] = " " THEN TrimEnd(SubSeq(s, 1, Len(s) - 1)) ELSE s

Trim(s) == TrimEnd(TrimStart(s))

\* a || b on strings: the empty string is falsy
OrElse(a, b) == IF a # <<>> THEN a ELSE b

HTTP_PREFIX == <<"h", "t", "t", "p">>
HTTPS_SCHEME == <<"h", "t", "t", "p", "s", ":", "/", "/">>
HTTP_SCHEME == <<"h", "t", "t", "p", ":", "/", "/">>
SLASH == <<"/">>
\* 'https://api.openai.com'
DEFAULT_HOST ==
  <<"h", "t", "t", "p", "s", ":", "/", "/", "a", "p", "i", ".", "o", "p", "e", "n", "a", "i", ".", "c", "o", "m">>

\* '/v1/chat/completions', '/v1/moderations', '/v1/models'
PATH_CHAT ==
  <<"/", "v", "1", "/", "c", "h", "a", "t", "/", "c", "o", "m", "p", "l", "e", "t", "i", "o", "n", "s">>
PATH_MODERATIONS ==
  <<"/", "v", "1", "/", "m", "o", "d", "e", "r", "a", "t", "i", "o", "n", "s">>
PATH_MODELS == <<"/", "v", "1", "/", "m", "o", "d", "e", "l", "s">>

\* ------------------------------------------------------------------ errors

\* a thrown value: `type` is its class, `code` its .code, `message` its .message
TRPCError(code, message) == [type |-> "TRPCError", code |-> code, message |-> message]
PlainError(type, message) == [type |-> type, code |-> UNDEF, message |-> message]
NoError == [type |-> "none", code |-> UNDEF, message |-> ""]

MSG_MISSING_KEY == "Missing OpenAI API Key. Add it on the UI (Models Setup) or server side (your deployment)."

\* -------------------------------------------------------- access resolver

\* accessSchema: every string field is trimmed by the input schema
accessSchema(access) ==
  [oaiKey |-> Trim(access.oaiKey), oaiHost |-> Trim(access.oaiHost)]

\* the check of the key left out
KeyMissing_NoCheck(oaiKey) == FALSE

\* `if (!oaiKey)`: the resolved key is the empty string
KeyMissing(oaiKey) == oaiKey = <<>>

\* the host with its scheme added: `if (!oaiHost.startsWith('http'))`
WithScheme(oaiHost) ==
  IF ~StartsWith(oaiHost, HTTP_PREFIX) THEN HTTPS_SCHEME \o oaiHost ELSE oaiHost

\* the host with one trailing slash removed when the path brings its own
WithoutSlash(oaiHost, apiPath) ==
  IF EndsWith(oaiHost, SLASH) /\ StartsWith(apiPath, SLASH)
  THEN SubSeq(oaiHost, 1, Len(oaiHost) - 1)
  ELSE oaiHost

\* openAIAccess: throws on a missing key, else the Authorization key and the url
openAIAccess(env, access, apiPath) ==
  LET oaiKey == OrElse(access.oaiKey, OrElse(env.OPENAI_API_KEY, <<>>))
      oaiHost == OrElse(access.oaiHost, OrElse(env.OPENAI_API_HOST, DEFAULT_HOST))
  IN IF KeyMissing(oaiKey)
     THEN [threw |-> TRUE, error |-> PlainError("Error", MSG_MISSING_KEY),
           key |-> <<>>, url |-> <<>>]
     ELSE [threw |-> FALSE, error |-> NoError,
           key |-> oaiKey, url |-> WithoutSlash(WithScheme(oaiHost), apiPath) \o apiPath]

\* --------------------------------------------------- wire payload builder

\* an optional array: `defined` is FALSE for null / undefined
Absent == [defined |-> FALSE, items |-> <<>>]
Arr(items) == [defined |-> TRUE, items |-> items]
\* an optional number
NoNumber == [defined |-> FALSE, value |-> 0]
Num(v) == [defined |-> TRUE, value |-> v]

\* `!!functions` alone: an empty array counts as a functions call
IsFunctionsCall_NoLength(functions) == functions.defined

\* `const isFunctionsCall = !!functions && functions.length > 0`
IsFunctionsCall(functions) == functions.defined /\ Len(functions.items) > 0

\* `functions &&`: every array, the empty one too, is truthy; only null is not
FunctionsTruthy(functions) == functions.defined

\* `model.temperature &&`, `model.maxTokens &&`: undefined and 0 are falsy
NumberTruthy(x) == x.defined /\ x.value # 0

\* openAIChatCompletionPayload: `keys` are the fields the payload object has
openAIChatCompletionPayload(model, history, functions, n, stream) ==
  [keys |-> {"model", "messages", "n", "stream"}
            \cup (IF FunctionsTruthy(functions) THEN {"functions", "function_call"} ELSE {})
            \cup (IF NumberTruthy(model.temperature) THEN {"temperature"} ELSE {})
            \cup (IF NumberTruthy(model.maxTokens) THEN {"max_tokens"} ELSE {}),
   model |-> model.id,
   messages |-> history,
   functions |-> IF FunctionsTruthy(functions) THEN functions.items ELSE <<>>,
   function_call |-> IF FunctionsTruthy(functions) THEN "auto" ELSE UNDEF,
   temperature |-> IF NumberTruthy(model.temperature) THEN model.temperature.value ELSE 0,
   max_tokens |-> IF NumberTruthy(model.maxTokens) THEN model.maxTokens.value ELSE 0,
   n |-> n,
   stream |-> stream]

\* the functions array passed on as it came
ChatPayload_Unguarded(model, history, functions) ==
  openAIChatCompletionPayload(model, history, functions, 1, FALSE)

\* the payload chatGenerateWithFunctions sends: functions, or null when not a functions call
ChatPayload(model, history, functions) ==
  openAIChatCompletionPayload(model, history,
                              IF IsFunctionsCall(functions) THEN functions ELSE Absent,
                              1, FALSE)

\* ------------------------------------------------ response disambiguator

\* a decoded JSON value, as far as the code and the output schema look at it
JsonValue(jtype, keys) == [jtype |-> jtype, keys |-> keys]
NoJson == JsonValue("undefined", {})

\* JSON.parse on the argument strings a provider is modelled to send
JSONParse(s) ==
  CASE s = "{\"a\":1}" -> [ok |-> TRUE, value |-> JsonValue("object", {"a"})]
    [] s = "{}" -> [ok |-> TRUE, value |-> JsonValue("object", {})]
    [] s = "[1]" -> [ok |-> TRUE, value |-> JsonValue("array", {"0"})]
    [] s = "null" -> [ok |-> TRUE, value |-> JsonValue("null", {})]
    [] OTHER -> [ok |-> FALSE, value |-> NoJson]

\* !x for a string-valued field: undefined, null and '' are falsy
Falsy(x) == x \in {UNDEF, NULL, ""}

\* what chatGenerateWithFunctions may return: `keys` are the object's fields
NoOutcome ==
  [keys |-> {}, role |-> UNDEF, content |-> UNDEF, finish_reason |-> UNDEF,
   function_name |-> UNDEF, function_arguments |-> NoJson]

\* no parse function has run
NotParsed == [threw |-> FALSE, error |-> NoError, value |-> NoOutcome]
Returned(value) == [threw |-> FALSE, error |-> NoError, value |-> value]
Threw(error) == [threw |-> TRUE, error |-> error, value |-> NoOutcome]

ERR_FC_NOT_REQUESTED ==
  TRPCError("INTERNAL_SERVER_ERROR",
            "[OpenAI Issue] Received a function call without a function call request")
ERR_FC_GOT_MESSAGE ==
  TRPCError("INTERNAL_SERVER_ERROR", "[OpenAI Issue] Expected a function call, got a message")
ERR_FC_MISSING ==
  TRPCError("INTERNAL_SERVER_ERROR",
            "[OpenAI Issue] Issue with the function call, missing name or arguments")
\* the error of the check before, thrown again
ERR_FC_ARGS_NOT_JSON_Reused == ERR_FC_MISSING

ERR_FC_ARGS_NOT_JSON ==
  TRPCError("INTERNAL_SERVER_ERROR",
            "[OpenAI Issue] Issue with the function call, arguments are not valid JSON")
ERR_NULL_MESSAGE ==
  TRPCError("INTERNAL_SERVER_ERROR", "[OpenAI Issue] Expected a message, got a null message")

parseChatGenerateFCOutput(isFunctionsCall, message) ==
  LET fc == message.function_call
  IN IF ~isFunctionsCall THEN Threw(ERR_FC_NOT_REQUESTED)
     ELSE IF message.content # NULL THEN Threw(ERR_FC_GOT_MESSAGE)
     ELSE IF ~fc.present \/ Falsy(fc.name) \/ Falsy(fc.arguments) THEN Threw(ERR_FC_MISSING)
     ELSE IF ~JSONParse(fc.arguments).ok THEN Threw(ERR_FC_ARGS_NOT_JSON)
     ELSE Returned([NoOutcome EXCEPT !.keys = {"function_name", "function_arguments"},
                                     !.function_name = fc.name,
                                     !.function_arguments = JSONParse(fc.arguments).value])

parseChatGenerateOutput(message, finish_reason) ==
  IF message.content = NULL THEN Threw(ERR_NULL_MESSAGE)
  ELSE Returned([NoOutcome EXCEPT !.keys = {"role", "content", "finish_reason"},
                                  !.role = message.role,
                                  !.content = message.content,
                                  !.finish_reason = finish_reason])

\* chatGenerateWithFunctionsOutputSchema: the two options of the union
IsString(x) == x \notin {UNDEF, NULL}

MessageSchemaAccepts(v) ==
  /\ v.role \in {"assistant", "system", "user"}
  /\ IsString(v.content)
  /\ v.finish_reason \in {"stop", "length", NULL}

FunctionCallSchemaAccepts(v) ==
  /\ IsString(v.function_name)
  /\ v.function_arguments.jtype = "object"

OutputSchemaAccepts(v) == MessageSchemaAccepts(v) \/ FunctionCallSchemaAccepts(v)

ERR_OUTPUT_VALIDATION == TRPCError("INTERNAL_SERVER_ERROR", "Output validation failed")

\* no output schema on the procedure
ValidateOutput_None(r) == r

\* .output(chatGenerateWithFunctionsOutputSchema): a value the schema rejects is an error
ValidateOutput(r) ==
  IF ~r.threw /\ ~OutputSchemaAccepts(r.value) THEN Threw(ERR_OUTPUT_VALIDATION) ELSE r

\* ----------------------------------------------------- model list sorter

GPT == <<"g", "p", "t">>
DASH == "-"

\* String.prototype.slice(0, 5)
Slice5(id) == SubSeq(id, 1, IF Len(id) < 5 THEN Len(id) ELSE 5)

\* id.split('-').length
SplitCount(id) == Cardinality({i \in 1..Len(id) : id[i] = DASH}) + 1

\* the collation order of the characters model ids are made of
COLLATION ==
  <<"-", ".", "0", "1", "3", "4", "5", "a", "b", "c", "d", "e", "g", "i", "n", "o", "p",
    "r", "t", "u", "v", "x">>
Rank(c) == CHOOSE i \in 1..Len(COLLATION) : COLLATION[i] = c

\* String.prototype.localeCompare: negative, zero or positive
RECURSIVE localeCompare(_, _)
localeCompare(a, b) ==
  IF a = <<>> /\ b = <<>> THEN 0
  ELSE IF a = <<>> THEN -1
  ELSE IF b = <<>> THEN 1
  ELSE IF Rank(Head(a)) < Rank(Head(b)) THEN -1
  ELSE IF Rank(Head(a)) > Rank(Head(b)) THEN 1
  ELSE localeCompare(Tail(a), Tail(b))

\* the comparator of llms.sort
CompareModels(a, b) ==
  IF Slice5(a) = Slice5(b)
  THEN IF SplitCount(a) = SplitCount(b)
       THEN localeCompare(a, b)
       ELSE SplitCount(a) - SplitCount(b)
  ELSE localeCompare(Slice5(b), Slice5(a))

\* Array.prototype.filter(model => model.id.includes('gpt'))
RECURSIVE FilterGpt(_)
FilterGpt(ids) ==
  IF ids = <<>> THEN <<>>
  ELSE IF Includes(Head(ids), GPT) THEN <<Head(ids)>> \o FilterGpt(Tail(ids))
  ELSE FilterGpt(Tail(ids))

\* Array.prototype.sort (stable): x goes after every element not greater than it
RECURSIVE InsertModel(_, _)
InsertModel(sorted, x) ==
  IF sorted = <<>> THEN <<x>>
  ELSE IF CompareModels(Head(sorted), x) <= 0
       THEN <<Head(sorted)>> \o InsertModel(Tail(sorted), x)
       ELSE <<x>> \o sorted

RECURSIVE SortModels(_)
SortModels(ids) ==
  IF ids = <<>> THEN <<>>
  ELSE InsertModel(SortModels(SubSeq(ids, 1, Len(ids) - 1)), ids[Len(ids)])

\* ------------------------------------------------------- HTTP transport

\* a decoded (or undecodable) response body, as far as the code looks at it
Body(decodes, isNull, error, toStringShadowed, choices, data) ==
  [decodes |-> decodes, isNull |-> isNull, error |-> error,
   toStringShadowed |-> toStringShadowed, choices |-> choices, data |-> data]
NoBody == Body(FALSE, FALSE, "absent", FALSE, Absent, Absent)

\* the outcome of a helper or a procedure
Ok(value) == [threw |-> FALSE, error |-> NoError, value |-> value]
Fail(error) == [threw |-> TRUE, error |-> error, value |-> NoBody]

\* fetch called a second time
FetchIssued_Twice(fetches) == fetches + 2

\* the number of fetch calls made once openaiGET / openaiPOST has called fetch
FetchIssued(fetches) == fetches + 1

\* `error?.error?.message || error?.error || error?.toString() || 'Unknown error'`
\* in a template literal, for a truthy decoded error body
ErrorBodyText(body) ==
  CASE body.error = "objectWithMessage" -> [threw |-> FALSE, text |-> "provider message"]
    [] body.error = "string" -> [threw |-> FALSE, text |-> "provider error"]
    [] body.error = "objectNoMessage" -> [threw |-> FALSE, text |-> "[object Object]"]
    [] body.error = "absent" /\ body.toStringShadowed -> [threw |-> TRUE, text |-> ""]
    [] OTHER -> [threw |-> FALSE, text |-> "[object Object]"]

\* openaiPOST from the response on: `if (!response.ok) ... try { return await response.json() }`
openaiPOSTResponse(response) ==
  LET body == response.body
      error == body.decodes /\ ~body.isNull
  IN IF ~response.ok
     THEN IF error
          THEN IF ErrorBodyText(body).threw
               THEN Fail(PlainError("TypeError", "error?.toString is not a function"))
               ELSE Fail(TRPCError("BAD_REQUEST", "[OpenAI Issue] " \o ErrorBodyText(body).text))
          ELSE Fail(TRPCError("BAD_REQUEST", "[Issue] " \o response.statusText))
     ELSE IF ~body.decodes
          THEN Fail(TRPCError("INTERNAL_SERVER_ERROR", "[OpenAI Issue] Unexpected token"))
          ELSE Ok(body)

\* openaiGET from the response on: `return await response.json()`
openaiGETResponse(response) ==
  IF ~response.body.decodes
  THEN Fail(PlainError("SyntaxError", "Unexpected token"))
  ELSE Ok(response.body)

\* ------------------------------------------------------------ procedures

\* only an empty or missing choices array refused
NotSingleChoice_OnlyEmpty(wire) ==
  wire.isNull \/ ~wire.choices.defined \/ Len(wire.choices.items) = 0

\* `wireCompletions?.choices?.length !== 1`
NotSingleChoice(wire) == wire.isNull \/ ~wire.choices.defined \/ Len(wire.choices.items) # 1

ErrExpectedOne(wire) ==
  TRPCError("INTERNAL_SERVER_ERROR",
            "[OpenAI Issue] Expected 1 completion, got "
              \o (IF wire.isNull \/ ~wire.choices.defined THEN "undefined"
                  ELSE ToString(Len(wire.choices.items))))

\* chatGenerateWithFunctions after openaiPOST returned `wire`: which parse functions
\* were entered, what the one entered gave, and what the procedure gives
ChatDisambiguate(isFunctionsCall, wire) ==
  IF NotSingleChoice(wire)
  THEN [entered |-> {}, parsed |-> NotParsed, final |-> Threw(ErrExpectedOne(wire))]
  ELSE LET choice == wire.choices.items[1]
           parsed == IF choice.finish_reason = "function_call"
                     THEN parseChatGenerateFCOutput(isFunctionsCall, choice.message)
                     ELSE parseChatGenerateOutput(choice.message, choice.finish_reason)
       IN [entered |-> IF choice.finish_reason = "function_call"
                       THEN {"parseChatGenerateFCOutput"}
                       ELSE {"parseChatGenerateOutput"},
           parsed |-> parsed,
           final |-> ValidateOutput(parsed)]

\* Error.prototype.toString
ErrorToString(error) ==
  IF error.message = "" THEN error.type ELSE error.type \o ": " \o error.message

\* the error thrown on as it was caught
ModerationCatch_Rethrow(error) == error

\* the catch block of moderation
ModerationCatch(error) ==
  IF error.code = "ECONNRESET"
  THEN TRPCError("CLIENT_CLOSED_REQUEST", "Connection reset by the client.")
  ELSE TRPCError("BAD_REQUEST",
                 "Error: " \o (IF error.message # "" THEN error.message
                               ELSE ErrorToString(error)))

\* listModels after openaiGET returned `wire`
ListModelsResult(wire) ==
  IF wire.isNull
  THEN Fail(PlainError("TypeError", "Cannot read properties of null (reading 'data')"))
  ELSE Ok(SortModels(FilterGpt(IF wire.data.defined THEN wire.data.items ELSE <<>>)))

\* ---------------------------------------------------------------- inputs

\* the hosts of the model: 'a.io', 'a.io/', 'httpbin.org', 'http://a.io', ' https://a.io/', 'e.io/'
A_IO == <<"a", ".", "i", "o">>
A_IO_SLASH == <<"a", ".", "i", "o", "/">>
HTTPBIN_ORG == <<"h", "t", "t", "p", "b", "i", "n", ".", "o", "r", "g">>
HTTP_A_IO == <<"h", "t", "t", "p", ":", "/", "/", "a", ".", "i", "o">>
SPACE_HTTPS_A_IO_SLASH ==
  <<" ", "h", "t", "t", "p", "s", ":", "/", "/", "a", ".", "i", "o", "/">>
E_IO_SLASH == <<"e", ".", "i", "o", "/">>

\* the model ids of the model
GPT_4 == <<"g", "p", "t", "-", "4">>
GPT_4_0314 == <<"g", "p", "t", "-", "4", "-", "0", "3", "1", "4">>
GPT_35_TURBO == <<"g", "p", "t", "-", "3", ".", "5", "-", "t", "u", "r", "b", "o">>
TEXT_DAVINCI_003 ==
  <<"t", "e", "x", "t", "-", "d", "a", "v", "i", "n", "c", "i", "-", "0", "0", "3">>
\* longest data array a models response carries
MaxModels == 2

\* oaiKey as the caller sends it, and process.env.OPENAI_API_KEY
KeyInputs == {<<>>, <<" ">>, <<"s", "k">>}
EnvKeys == {<<>>, <<"e", "k">>}

\* oaiHost as the caller sends it, and process.env.OPENAI_API_HOST
HostInputs ==
  {<<>>,
   A_IO,
   A_IO_SLASH,
   HTTPBIN_ORG,
   HTTP_A_IO,
   SPACE_HTTPS_A_IO_SLASH}
EnvHosts == {<<>>, E_IO_SLASH}

AccessInputs == [oaiKey : KeyInputs, oaiHost : HostInputs]

FunctionDef == [name |-> "f"]
FunctionsInputs ==
  {Absent} \cup {Arr([i \in 1..n |-> FunctionDef]) : n \in 0..MaxFunctions}

ModelInput == [id |-> "gpt-4", temperature |-> NoNumber, maxTokens |-> NoNumber]
HistoryInput == <<[role |-> "user", content |-> "hi"]>>

\* the choices a provider may send
FunctionCalls ==
  {[present |-> FALSE, name |-> UNDEF, arguments |-> UNDEF]}
    \cup [present : {TRUE}, name : {UNDEF, "f"},
          arguments : {UNDEF, "{\"a\":1}", "[1]", "not json"}]
Messages ==
  [role : {"assistant", "function"}, content : {NULL, UNDEF, "hello"},
   function_call : FunctionCalls]
Choices ==
  [finish_reason : {"stop", "length", NULL, "function_call", "content_filter"},
   message : Messages]

\* the bodies of a response whose status is not a success
ErrorBodies ==
  {NoBody, Body(TRUE, TRUE, "absent", FALSE, Absent, Absent)}
    \cup {Body(TRUE, FALSE, e, FALSE, Absent, Absent) :
            e \in {"objectWithMessage", "string", "objectNoMessage", "absent"}}
    \cup {Body(TRUE, FALSE, "absent", TRUE, Absent, Absent)}

\* the bodies of a chat completion response: undecodable, null, {} and n times a choice
ChatBodies ==
  {NoBody, Body(TRUE, TRUE, "absent", FALSE, Absent, Absent),
   Body(TRUE, FALSE, "absent", FALSE, Absent, Absent)}
    \cup {Body(TRUE, FALSE, "absent", FALSE, Arr([i \in 1..n |-> c]), Absent) :
            n \in 0..MaxChoices, c \in Choices}

ModerationBodies ==
  {NoBody, Body(TRUE, TRUE, "absent", FALSE, Absent, Absent),
   Body(TRUE, FALSE, "absent", FALSE, Absent, Absent)}

ModelIds == {GPT_4, GPT_4_0314, GPT_35_TURBO, TEXT_DAVINCI_003}
ModelLists == UNION {[1..n -> ModelIds] : n \in 0..MaxModels}
ModelsBodies ==
  {NoBody, Body(TRUE, TRUE, "absent", FALSE, Absent, Absent),
   Body(TRUE, FALSE, "absent", FALSE, Absent, Absent)}
    \cup {Body(TRUE, FALSE, "absent", FALSE, Absent, Arr(l)) : l \in ModelLists}

Response(ok, body) ==
  [ok |-> ok, statusText |-> IF ok THEN "OK" ELSE "Bad Request", body |-> body]
NoResponse == Response(FALSE, NoBody)

\* what awaiting fetch gives: a response, or a rejection with a transport error
Fetched(response) == [rejected |-> FALSE, error |-> NoError, response |-> response]
Rejected(error) == [rejected |-> TRUE, error |-> error, response |-> NoResponse]
FetchErrors ==
  {[type |-> "FetchError", code |-> "ECONNRESET", message |-> "socket hang up"],
   [type |-> "TypeError", code |-> UNDEF, message |-> "fetch failed"],
   [type |-> "Error", code |-> UNDEF, message |-> ""]}
Rejections == {Rejected(e) : e \in FetchErrors}

ChatFetches ==
  {Fetched(Response(FALSE, b)) : b \in ErrorBodies}
    \cup {Fetched(Response(TRUE, b)) : b \in ChatBodies} \cup Rejections
ModerationFetches ==
  {Fetched(Response(FALSE, b)) : b \in ErrorBodies}
    \cup {Fetched(Response(TRUE, b)) : b \in ModerationBodies} \cup Rejections
ModelsFetches ==
  {Fetched(Response(FALSE, b)) : b \in ErrorBodies}
    \cup {Fetched(Response(TRUE, b)) : b \in ModelsBodies} \cup Rejections

\* ----------------------------------------------------------------- state

VARIABLES
  env,       \* process.env: OPENAI_API_KEY, OPENAI_API_HOST
  pc,        \* "idle", "awaiting" (suspended in await fetch) or "done"
  proc,      \* the procedure running: "chat", "moderation", "listModels" or "none"
  input,     \* its validated input
  req,       \* the request given to fetch
  fetches,   \* the number of fetch calls the running procedure has made
  fetched,   \* what await fetch gave
  helper,    \* how openaiGET / openaiPOST ended
  entered,   \* the parse functions chatGenerateWithFunctions has entered
  parsed,    \* what the parse function entered gave
  result,    \* how the procedure ended
  call,      \* the arguments of a call of openAIChatCompletionPayload
  payload    \* what that call returned

vars ==
  <<env, pc, proc, input, req, fetches, fetched, helper, entered, parsed, result, call,
    payload>>

NoCall ==
  [via |-> "none", model |-> ModelInput, functions |-> Absent, n |-> 0, stream |-> FALSE]
NoPayload == openAIChatCompletionPayload(ModelInput, <<>>, Absent, 0, FALSE)

NoInput ==
  [access |-> [oaiKey |-> <<>>, oaiHost |-> <<>>], functions |-> Absent, text |-> ""]
NoRequest == [method |-> "none", url |-> <<>>, key |-> <<>>, keys |-> {}]
NotEnded == [ended |-> FALSE, threw |-> FALSE, error |-> NoError]
Ended(r) == [ended |-> TRUE, threw |-> r.threw, error |-> r.error]
NoResult == [ended |-> FALSE, threw |-> FALSE, error |-> NoError, value |-> NoBody]
Result(r) == [ended |-> TRUE, threw |-> r.threw, error |-> r.error, value |-> r.value]

Init ==
  /\ env \in [OPENAI_API_KEY : EnvKeys, OPENAI_API_HOST : EnvHosts]
  /\ pc = "idle"
  /\ proc = "none"
  /\ input = NoInput
  /\ req = NoRequest
  /\ fetches = 0
  /\ fetched = Rejected(NoError)
  /\ helper = NotEnded
  /\ entered = {}
  /\ parsed = NotParsed
  /\ result = NoResult
  /\ call = NoCall
  /\ payload = NoPayload

\* a procedure starts and runs, inside openaiGET / openaiPOST, up to `await fetch`;
\* `caught` is what the procedure makes of an error openAIAccess throws
Invoke(name, in, method, apiPath, payloadKeys, caught) ==
  LET a == openAIAccess(env, in.access, apiPath)
  IN /\ pc = "idle"
     /\ proc' = name
     /\ input' = in
     /\ IF a.threw
        THEN /\ pc' = "done"
             /\ helper' = Ended(Fail(a.error))
             /\ result' = Result(Fail(caught))
             /\ UNCHANGED <<req, fetches>>
        ELSE /\ pc' = "awaiting"
             /\ req' = [method |-> method, url |-> a.url, key |-> a.key, keys |-> payloadKeys]
             /\ fetches' = FetchIssued(fetches)
             /\ UNCHANGED <<helper, result>>
     /\ UNCHANGED <<env, fetched, entered, parsed, call, payload>>

ChatInvoke ==
  \E access \in AccessInputs, functions \in FunctionsInputs :
    LET in == [access |-> accessSchema(access), functions |-> functions, text |-> ""]
    IN Invoke("chat", in, "POST", PATH_CHAT,
              ChatPayload(ModelInput, HistoryInput, functions).keys,
              openAIAccess(env, in.access, PATH_CHAT).error)

ModerationInvoke ==
  \E access \in AccessInputs :
    LET in == [access |-> accessSchema(access), functions |-> Absent, text |-> "some text"]
    IN Invoke("moderation", in, "POST", PATH_MODERATIONS, {"input", "model"},
              ModerationCatch(openAIAccess(env, in.access, PATH_MODERATIONS).error))

ListModelsInvoke ==
  \E access \in AccessInputs :
    LET in == [access |-> accessSchema(access), functions |-> Absent, text |-> ""]
    IN Invoke("listModels", in, "GET", PATH_MODELS, {},
              openAIAccess(env, in.access, PATH_MODELS).error)

\* await fetch resumes chatGenerateWithFunctions, which runs to its end
ChatResponds ==
  /\ pc = "awaiting" /\ proc = "chat"
  /\ \E f \in ChatFetches :
       LET post == IF f.rejected THEN Fail(f.error) ELSE openaiPOSTResponse(f.response)
           d == ChatDisambiguate(IsFunctionsCall(input.functions), post.value)
       IN /\ fetched' = f
          /\ helper' = Ended(post)
          /\ IF post.threw
             THEN /\ result' = Result(post)
                  /\ UNCHANGED <<entered, parsed>>
             ELSE /\ entered' = d.entered
                  /\ parsed' = d.parsed
                  /\ result' = Result(d.final)
  /\ pc' = "done"
  /\ UNCHANGED <<env, proc, input, req, fetches, call, payload>>

\* await fetch resumes moderation, which runs to its end
ModerationResponds ==
  /\ pc = "awaiting" /\ proc = "moderation"
  /\ \E f \in ModerationFetches :
       LET post == IF f.rejected THEN Fail(f.error) ELSE openaiPOSTResponse(f.response)
       IN /\ fetched' = f
          /\ helper' = Ended(post)
          /\ result' = IF post.threw THEN Result(Fail(ModerationCatch(post.error)))
                       ELSE Result(post)
  /\ pc' = "done"
  /\ UNCHANGED <<env, proc, input, req, fetches, entered, parsed, call, payload>>

\* await fetch resumes listModels, which runs to its end
ListModelsResponds ==
  /\ pc = "awaiting" /\ proc = "listModels"
  /\ \E f \in ModelsFetches :
       LET get == IF f.rejected THEN Fail(f.error) ELSE openaiGETResponse(f.response)
       IN /\ fetched' = f
          /\ helper' = Ended(get)
          /\ result' = IF get.threw THEN Result(get) ELSE Result(ListModelsResult(get.value))
  /\ pc' = "done"
  /\ UNCHANGED <<env, proc, input, req, fetches, entered, parsed, call, payload>>

\* the call is over; the next one starts from nothing
Return ==
  /\ pc = "done"
  /\ pc' = "idle"
  /\ proc' = "none"
  /\ input' = NoInput
  /\ req' = NoRequest
  /\ fetches' = 0
  /\ fetched' = Rejected(NoError)
  /\ helper' = NotEnded
  /\ entered' = {}
  /\ parsed' = NotParsed
  /\ result' = NoResult
  /\ UNCHANGED <<env, call, payload>>

Next ==
  \/ ChatInvoke
  \/ ModerationInvoke
  \/ ListModelsInvoke
  \/ ChatResponds
  \/ ModerationResponds
  \/ ListModelsResponds
  \/ Return

Spec == Init /\ [][Next]_vars

\* ------------------------------------ the payload builder, called by itself

\* modelSchema: temperature in [0, 1], maxTokens in [1, 100000], both optional
ModelInputs ==
  [id : {"gpt-4"}, temperature : {NoNumber, Num(0), Num(1)},
   maxTokens : {NoNumber, Num(1), Num(100000)}]

\* openAIChatCompletionPayload is exported: a caller passes it any functions array or null
BuildDirect ==
  /\ call.via = "none"
  /\ \E model \in ModelInputs, functions \in FunctionsInputs, n \in 1..2, stream \in BOOLEAN :
       /\ call' = [via |-> "direct", model |-> model, functions |-> functions, n |-> n,
                   stream |-> stream]
       /\ payload' = openAIChatCompletionPayload(model, HistoryInput, functions, n, stream)
  /\ UNCHANGED <<env, pc, proc, input, req, fetches, fetched, helper, entered, parsed, result>>

\* chatGenerateWithFunctions builds the payload of its request
BuildForChat ==
  /\ call.via = "none"
  /\ \E model \in ModelInputs, functions \in FunctionsInputs :
       /\ call' = [via |-> "chat", model |-> model, functions |-> functions, n |-> 1,
                   stream |-> FALSE]
       /\ payload' = ChatPayload(model, HistoryInput, functions)
  /\ UNCHANGED <<env, pc, proc, input, req, fetches, fetched, helper, entered, parsed, result>>

\* the payload is sent or dropped
BuildDone ==
  /\ call.via # "none"
  /\ call' = NoCall
  /\ payload' = NoPayload
  /\ UNCHANGED <<env, pc, proc, input, req, fetches, fetched, helper, entered, parsed, result>>

NextPayload ==
  \/ BuildDirect
  \/ BuildForChat
  \/ BuildDone

SpecPayload == Init /\ [][NextPayload]_vars

\* ---------------------------------------------------------------- claims

\* the caller's key and the process-wide default are both empty
NoKeyAnywhere == input.access.oaiKey = <<>> /\ env.OPENAI_API_KEY = <<>>

\* C1: in each of the three procedures, when the caller's key is empty and no
\* process-wide default key is set, the call fails and no fetch is issued in it.
C1_NoFetchWithoutKey ==
  (proc \in {"chat", "moderation", "listModels"} /\ NoKeyAnywhere)
    => /\ pc = "done"
       /\ result.ended /\ result.threw
       /\ helper.threw
       /\ fetches = 0
       /\ req = NoRequest

C1_Witness == proc = "listModels" /\ NoKeyAnywhere /\ pc = "done" /\ fetches = 0

\* the two ChatOutcome variants, well-formed
IsMessageOutcome(v) ==
  /\ v.keys = {"role", "content", "finish_reason"}
  /\ v.finish_reason \in {"stop", "length", NULL}
  /\ v.content \notin {NULL, UNDEF}
IsFunctionCallOutcome(v) ==
  /\ v.keys = {"function_name", "function_arguments"}
  /\ v.function_name \notin {NULL, UNDEF}
  /\ v.function_arguments.jtype = "object"
WellFormedOutcome(v) ==
  /\ IsMessageOutcome(v) \/ IsFunctionCallOutcome(v)
  /\ ~(IsMessageOutcome(v) /\ IsFunctionCallOutcome(v))

\* C2 as stated: every outcome the disambiguation step (parseChatGenerateFCOutput /
\* parseChatGenerateOutput) produces is exactly one well-formed ChatOutcome variant.
C2_ParsedWellFormed ==
  (proc = "chat" /\ entered # {} /\ ~parsed.threw) => WellFormedOutcome(parsed.value)

\* C2 amended: every outcome chatGenerateWithFunctions returns to its caller is
\* exactly one well-formed ChatOutcome variant; what the disambiguation step
\* produced outside the two variants is refused by the output schema.
C2_ReturnedWellFormed ==
  (proc = "chat" /\ result.ended /\ ~result.threw) => WellFormedOutcome(result.value)

C2_Witness ==
  /\ proc = "chat" /\ result.ended /\ ~result.threw
  /\ IsFunctionCallOutcome(result.value)
  /\ result.value.function_arguments.keys = {"a"}

\* openaiPOST returned a response with exactly one choice
SingleChoice ==
  /\ proc = "chat" /\ pc = "done" /\ helper.ended /\ ~helper.threw
  /\ ~fetched.response.body.isNull
  /\ fetched.response.body.choices.defined
  /\ Len(fetched.response.body.choices.items) = 1
TheChoice == fetched.response.body.choices.items[1]
FunctionsOffered == input.functions.defined /\ Len(input.functions.items) > 0

\* C3: when the functions list is absent or empty, a single choice with
\* finish_reason = "function_call" makes the call fail with the internal error
\* kind, and no FunctionCall outcome is ever produced.
C3_NoFunctionCallUnlessOffered ==
  (proc = "chat" /\ pc = "done" /\ ~FunctionsOffered)
    => /\ "function_name" \notin parsed.value.keys
       /\ result.threw \/ "function_name" \notin result.value.keys
       /\ (SingleChoice /\ TheChoice.finish_reason = "function_call")
            => /\ result.threw
               /\ result.error.type = "TRPCError"
               /\ result.error.code = "INTERNAL_SERVER_ERROR"

C3_Witness ==
  /\ SingleChoice /\ input.functions = Arr(<<>>)
  /\ TheChoice.finish_reason = "function_call"
  /\ TheChoice.message.content = NULL
  /\ TheChoice.message.function_call.name = "f"
  /\ TheChoice.message.function_call.arguments = "{\"a\":1}"
  /\ result.threw

\* the function-call branch reaches the decoding of arguments that are not JSON
ArgumentsNotJson ==
  /\ SingleChoice /\ FunctionsOffered
  /\ TheChoice.finish_reason = "function_call"
  /\ TheChoice.message.content = NULL
  /\ TheChoice.message.function_call.present
  /\ TheChoice.message.function_call.name = "f"
  /\ TheChoice.message.function_call.arguments = "not json"

\* the errors of the provider-contract violations of the function-call branch
FCViolations == {ERR_FC_NOT_REQUESTED, ERR_FC_GOT_MESSAGE, ERR_FC_MISSING}

\* C4 as stated: arguments that are not valid JSON fail with an error kind distinct
\* from the kind of the provider-contract violations of the same branch.
C4_DistinctKind ==
  ArgumentsNotJson
    => result.threw /\ result.error.code \notin {e.code : e \in FCViolations}

\* C4 amended: arguments that are not valid JSON fail with the same internal error
\* kind as the provider-contract violations of the branch, and with a message
\* none of them carries.
C4_SameKindDistinctMessage ==
  ArgumentsNotJson
    => /\ result.threw
       /\ result.error.type = "TRPCError"
       /\ result.error.code = "INTERNAL_SERVER_ERROR"
       /\ result.error.code \in {e.code : e \in FCViolations}
       /\ result.error.message \notin {e.message : e \in FCViolations}

C4_Witness == ArgumentsNotJson /\ result.threw

\* C5: openaiPOST gives "bad request" for every response without a success
\* status, "internal" for a success status with an undecodable body, and no error
\* for a success status with a decodable body.
C5_PostErrorKinds ==
  (proc \in {"chat", "moderation"} /\ pc = "done" /\ ~fetched.rejected /\ req # NoRequest)
    => /\ ~fetched.response.ok
            => helper.threw /\ helper.error.type = "TRPCError"
                 /\ helper.error.code = "BAD_REQUEST"
       /\ (fetched.response.ok /\ ~fetched.response.body.decodes)
            => helper.threw /\ helper.error.type = "TRPCError"
                 /\ helper.error.code = "INTERNAL_SERVER_ERROR"
       /\ (fetched.response.ok /\ fetched.response.body.decodes) => ~helper.threw

HasFunctionFields(p) ==
  /\ {"functions", "function_call"} \subseteq p.keys
  /\ p.function_call = "auto"
OmitsFunctionFields(p) == {"functions", "function_call"} \cap p.keys = {}

\* C6 as stated: for every input of openAIChatCompletionPayload the payload has
\* functions and function_call = "auto" iff the functions argument is non-null
\* and non-empty, and omits both otherwise.
C6_FieldsIffNonEmpty ==
  call.via # "none"
    => IF call.functions.defined /\ Len(call.functions.items) > 0
       THEN HasFunctionFields(payload)
       ELSE OmitsFunctionFields(payload)

\* C6 amended: openAIChatCompletionPayload puts functions and function_call = "auto"
\* in the payload iff its functions argument is non-null (an empty array is sent as
\* it is); chatGenerateWithFunctions passes null for an absent or empty list, so the
\* payload of its request has both fields iff the list is non-empty and omits both
\* otherwise.
C6_FieldsIffNonNull ==
  /\ call.via = "direct"
       => IF call.functions.defined
          THEN HasFunctionFields(payload) /\ payload.functions = call.functions.items
          ELSE OmitsFunctionFields(payload)
  /\ call.via = "chat"
       => IF call.functions.defined /\ Len(call.functions.items) > 0
          THEN HasFunctionFields(payload) /\ payload.functions = call.functions.items
          ELSE OmitsFunctionFields(payload)

C6_Witness ==
  call.via = "chat" /\ call.functions = Arr(<<>>) /\ OmitsFunctionFields(payload)

\* the host openAIAccess resolves: the caller's, else the default of the process
ResolvedHost ==
  IF input.access.oaiHost # <<>> THEN input.access.oaiHost
  ELSE IF env.OPENAI_API_HOST # <<>> THEN env.OPENAI_API_HOST
  ELSE DEFAULT_HOST
HasScheme(host) == Includes(host, <<":", "/", "/">>)

\* C7: for every host without a scheme, the url openAIAccess returns begins with
\* "https://", also when the host's name begins with the letters "http".
C7_SchemelessGetsHttps ==
  (req # NoRequest /\ ~HasScheme(ResolvedHost)) => StartsWith(req.url, HTTPS_SCHEME)

\* C8: in moderation every failure of the underlying POST surfaces as "client
\* closed request" when the error's code is ECONNRESET, else as "bad request"
\* carrying the error's message; no error escapes with another kind.
C8_ModerationErrorKinds ==
  (proc = "moderation" /\ pc = "done")
    => /\ result.threw <=> helper.threw
       /\ helper.threw
            => /\ result.error.type = "TRPCError"
               /\ IF helper.error.code = "ECONNRESET"
                  THEN result.error.code = "CLIENT_CLOSED_REQUEST"
                  ELSE /\ result.error.code = "BAD_REQUEST"
                       /\ helper.error.message # ""
                            => result.error.message = "Error: " \o helper.error.message

C8_Witness ==
  /\ proc = "moderation" /\ pc = "done"
  /\ helper.threw /\ helper.error.code = "ECONNRESET"
  /\ result.error.code = "CLIENT_CLOSED_REQUEST"

\* C9: when the decoded response does not carry exactly one choice (choices
\* missing, empty, or two or more), chatGenerateWithFunctions fails with the
\* internal error kind before either parse function is entered, and no outcome
\* is produced.
C9_FailsBeforeDisambiguation ==
  (proc = "chat" /\ pc = "done" /\ helper.ended /\ ~helper.threw /\ ~SingleChoice)
    => /\ result.threw
       /\ result.error.type = "TRPCError"
       /\ result.error.code = "INTERNAL_SERVER_ERROR"
       /\ entered = {}
       /\ parsed = NotParsed

C9_Witness ==
  /\ proc = "chat" /\ pc = "done" /\ ~helper.threw
  /\ fetched.response.body.choices.defined
  /\ Len(fetched.response.body.choices.items) = 2
  /\ entered = {}

\* C10: every invocation of the three procedures issues at most one fetch, on
\* every path, the failing ones too: once it has fetched it never fetches again.
C10_AtMostOneFetch ==
  /\ fetches <= 1
  /\ pc = "idle" => fetches = 0
  /\ pc = "awaiting" => fetches = 1

C10_Witness ==
  /\ pc = "done" /\ fetches = 1
  /\ ~fetched.rejected /\ ~fetched.response.ok
  /\ result.threw

====
